---- MODULE Spec2Model ----
(***************************************************************************)
(* Model of src/bin/y4m_source.rs: Y4MDecoder::collect, the retiming       *)
(* decode loop that pulls frames from a y4m decoder, drops frames to reach *)
(* the requested frame rate and hands the retained frames to a Collector.  *)
(*                                                                         *)
(* Times are f64 seconds in the source.  They are modelled as exact        *)
(* rationals <<n, d>> (d > 0, lowest terms), so the results below are      *)
(* about the arithmetic the code writes down, not about f64 rounding.      *)
(*                                                                         *)
(* Two runs of collect (two Y4MDecoder objects opened on the same file,    *)
(* with the same requested rate and each with its own speed) are executed  *)
(* one after the other on the calling thread; collect is synchronous.      *)
(***************************************************************************)
EXTENDS Integers, Sequences, FiniteSets, TLC

\* ------------------------------------------------------------- bounds
\* Longest stream, in frames.
MaxFrames == 4

\* The collect calls that are modelled.
Runs == {1, 2}

\* Frame rates declared by the stream header, <<num, den>>.
SourceRates == {<<10, 1>>, <<30, 1>>, <<25, 2>>}

\* Requested output rates: self.fps.fps, an Option.
None == <<>>

Some(x) == <<x>>

TargetRates == {None, Some(10), Some(30)}

\* Playback speeds, self.fps.speed, as rationals.
Speeds == {<<1, 2>>, <<1, 1>>, <<2, 1>>}

\* Declared dimensions.
Widths == {0, 2, 65536}
Heights == {0, 2, 65536}

\* The raw header parameters, get_raw_params(), as a sequence of pieces of text:
\* the piece "COLORRANGE=", the values "FULL" and "LIMITED", and "X" for any
\* other byte.  No piece holds a part of another.
Pieces == {"X", "COLORRANGE=", "FULL", "LIMITED"}

\* Longest raw header, in pieces.
MaxPieces == 3

RECURSIVE SeqsUpTo(_, _)
SeqsUpTo(S, n) ==
    IF n = 0 THEN {<<>>}
    ELSE LET shorter == SeqsUpTo(S, n - 1)
         IN shorter \cup {Append(q, x) : q \in shorter, x \in S}

RawHeaders == SeqsUpTo(Pieces, MaxPieces)

\* The header of the runs that are about retiming.
PlainHeader == <<"X">>

\* File sizes, Y4MDecoder.file_size: None for stdin.
FileSizes == {None, Some(0), Some(5), Some(13), Some(40), Some(100)}

\* get_bytes_per_sample()
SampleBytes == {1, 2}

\* Dimensions for the frame estimate.
EstimateWidths == {0, 1, 2, 3}
EstimateHeights == {1, 2, 3}

\* Dimensions and caller's matrix for the choice of the colour matrix.
MatrixWidths == {720, 721, 1920}
MatrixHeights == {480, 481, 1080}
Matrices == {None, Some("Bt601"), Some("Bt709"), Some("Bt2020")}

\* ---------------------------------------------------------- constants
DEFAULT_FPS == 20

U16_MAX == 65535

\* --------------------------------------------------------- f64 values
RECURSIVE GCD(_, _)
GCD(a, b) == IF b = 0 THEN a ELSE GCD(b, a % b)

Abs(n) == IF n < 0 THEN -n ELSE n

\* The value n / d, d > 0, in lowest terms. The pair is bound to p, so that n and
\* d are each evaluated once however deeply the calls nest.
Rat(n, d) ==
    LET Lowest(p) == LET g == GCD(Abs(p[1]), p[2]) IN <<p[1] \div g, p[2] \div g>>
    IN CHOOSE q \in {Lowest(p) : p \in {<<n, d>>}} : TRUE

Zero == <<0, 1>>

One == <<1, 1>>

FAdd(a, b) == Rat(a[1] * b[2] + b[1] * a[2], a[2] * b[2])

FSub(a, b) == Rat(a[1] * b[2] - b[1] * a[2], a[2] * b[2])

\* a / b for b > 0.
FDiv(a, b) == Rat(a[1] * b[2], a[2] * b[1])

FLess(a, b) == a[1] * b[2] < b[1] * a[2]

FLeq(a, b) == a[1] * b[2] <= b[1] * a[2]

\* --------------------------------------------------------- the header
\* y4m::Colorspace; Other stands for every variant collect does not name.
SupportedTags == {"Cmono", "C420", "C420jpeg", "C420paldv", "C420mpeg2", "C422", "C444"}

HighDepthTags == {"Cmono12", "C420p10", "C420p12", "C422p10", "C422p12", "C444p10", "C444p12"}

Colorspaces == SupportedTags \cup HighDepthTags \cup {"Other"}

SampOfDepthIgnored(cs, raw) ==
    IF cs \in {"Cmono", "Cmono12"} THEN [ok |-> TRUE, samp |-> "Mono"]
    ELSE IF cs \in {"C420", "C420p10", "C420p12", "C420jpeg", "C420paldv", "C420mpeg2"}
      THEN [ok |-> TRUE, samp |-> "S2x2"]
    ELSE IF cs \in {"C422", "C422p10", "C422p12"} THEN [ok |-> TRUE, samp |-> "S2x1"]
    ELSE IF cs \in {"C444", "C444p10", "C444p12"} THEN [ok |-> TRUE, samp |-> "S1x1"]
    ELSE [ok |-> FALSE, err |-> <<"UnsupportedColorMode", raw>>]

\* The match on get_colorspace(): a Samp, or the error returned.
SampOf(cs, raw) ==
    CASE cs = "Cmono" -> [ok |-> TRUE, samp |-> "Mono"]
      [] cs = "Cmono12" -> [ok |-> FALSE, err |-> <<"NotSupportedYet", "Cmono12">>]
      [] cs = "C420" -> [ok |-> TRUE, samp |-> "S2x2"]
      [] cs = "C420p10" -> [ok |-> FALSE, err |-> <<"NotSupportedYet", "C420p10">>]
      [] cs = "C420p12" -> [ok |-> FALSE, err |-> <<"NotSupportedYet", "C420p12">>]
      [] cs = "C420jpeg" -> [ok |-> TRUE, samp |-> "S2x2"]
      [] cs = "C420paldv" -> [ok |-> TRUE, samp |-> "S2x2"]
      [] cs = "C420mpeg2" -> [ok |-> TRUE, samp |-> "S2x2"]
      [] cs = "C422" -> [ok |-> TRUE, samp |-> "S2x1"]
      [] cs = "C422p10" -> [ok |-> FALSE, err |-> <<"NotSupportedYet", "C422p10">>]
      [] cs = "C422p12" -> [ok |-> FALSE, err |-> <<"NotSupportedYet", "C422p12">>]
      [] cs = "C444" -> [ok |-> TRUE, samp |-> "S1x1"]
      [] cs = "C444p10" -> [ok |-> FALSE, err |-> <<"NotSupportedYet", "C444p10">>]
      [] cs = "C444p12" -> [ok |-> FALSE, err |-> <<"NotSupportedYet", "C444p12">>]
      [] OTHER -> [ok |-> FALSE, err |-> <<"UnsupportedColorMode", raw>>]

DimsOnlyUpperBound(w, h) == w > U16_MAX \/ h > U16_MAX

\* width == 0 || width > u16::MAX || height == 0 || height > u16::MAX
DimsOutOfBounds(w, h) == w = 0 \/ w > U16_MAX \/ h = 0 \/ h > U16_MAX

Min(S) == CHOOSE x \in S : \A y \in S : x <= y

Max(S) == CHOOSE x \in S : \A y \in S : x >= y

AfterLastColorRange(raw) ==
    LET hits == {i \in 1..Len(raw) : raw[i] = "COLORRANGE="}
    IN IF hits = {} THEN None ELSE Some(SubSeq(raw, Max(hits) + 1, Len(raw)))

\* raw_params_str.split_once("COLORRANGE="): the text after the first
\* occurrence, or None.
AfterColorRange(raw) ==
    LET hits == {i \in 1..Len(raw) : raw[i] = "COLORRANGE="}
    IN IF hits = {} THEN None ELSE Some(SubSeq(raw, Min(hits) + 1, Len(raw)))

\* r.starts_with("FULL")
StartsWithFull(rest) == Len(rest) >= 1 /\ rest[1] = "FULL"

\* range: lines 99-101 and 106.
RangeOf(raw) ==
    LET r == AfterColorRange(raw)
    IN IF r = None THEN "Limited"
       ELSE IF StartsWithFull(r[1]) THEN "Full" ELSE "Limited"

MatrixOfEitherSmall(ics, w, h) ==
    IF ics # None THEN ics[1]
    ELSE IF h <= 480 \/ w <= 720 THEN "Bt601" ELSE "Bt709"

\* matrix: self.in_color_space.unwrap_or(..), lines 103-105.
MatrixOf(ics, w, h) ==
    IF ics # None THEN ics[1]
    ELSE IF h <= 480 /\ w <= 720 THEN "Bt601" ELSE "Bt709"

\* ------------------------------------------------------- total_frames
\* get_raw_params().len(): the header's length in bytes.
PieceLen(piece) ==
    CASE piece = "COLORRANGE=" -> 11
      [] piece = "FULL" -> 4
      [] piece = "LIMITED" -> 7
      [] OTHER -> 1

RECURSIVE ByteLen(_)
ByteLen(raw) == IF raw = <<>> THEN 0 ELSE PieceLen(Head(raw)) + ByteLen(Tail(raw))

\* s: the match on get_colorspace() in total_frames.
SubsamplingWeight(cs) ==
    CASE cs = "Cmono" -> 4
      [] cs = "Cmono12" -> 4
      [] cs = "C420" -> 6
      [] cs = "C420p10" -> 6
      [] cs = "C420p12" -> 6
      [] cs = "C420jpeg" -> 6
      [] cs = "C420paldv" -> 6
      [] cs = "C420mpeg2" -> 6
      [] cs = "C422" -> 8
      [] cs = "C422p10" -> 8
      [] cs = "C422p12" -> 8
      [] cs = "C444" -> 12
      [] cs = "C444p10" -> 12
      [] cs = "C444p12" -> 12
      [] OTHER -> 12

PlainSub(a, b) == a - b

\* u64::saturating_sub
SaturatingSub(a, b) == IF a >= b THEN a - b ELSE 0

\* w * h * d * s / 4 + 6
BytesPerFrame(w, h, d, s) == (w * h * d * s) \div 4 + 6

\* total_frames: lines 65-89.
TotalFramesOf(size, raw, w, h, d, cs) ==
    IF size = None THEN None
    ELSE Some(SaturatingSub(size[1], ByteLen(raw))
                \div BytesPerFrame(w, h, d, SubsamplingWeight(cs)))

\* ------------------------------------------------------- the retiming
FrameTimeWithoutDen(rate) == FDiv(One, Rat(rate[1], 1))

FrameTimeInverted(rate) == FDiv(Rat(rate[1], 1), Rat(rate[2], 1))

\* frame_time = 1. / (fps.num as f64 / fps.den as f64)
FrameTime(rate) == FDiv(One, FDiv(Rat(rate[1], 1), Rat(rate[2], 1)))

\* wanted_fps = f64::from(self.fps.fps.unwrap_or(DEFAULT_FPS))
WantedFps(req) == Rat(IF req = None THEN DEFAULT_FPS ELSE req[1], 1)

\* wanted_frame_time = 1. / wanted_fps
WantedFrameTimeNotInverted(req) == WantedFps(req)

WantedFrameTime(req) == FDiv(One, WantedFps(req))

ThisFramePtsNoSpeed(pts, spd) == pts

ThisFramePtsNegated(pts, spd) == FDiv(FSub(Zero, pts), spd)

ThisFramePtsTimesSpeed(pts, spd) == FDiv(pts, FDiv(One, spd))

\* this_frame_pts = presentation_timestamp / f64::from(self.fps.speed)
ThisFramePts(pts, spd) == FDiv(pts, spd)

SkipFrameOrEqual(pts, wanted) == FLeq(pts, wanted)

\* presentation_timestamp < wanted_pts: skip a frame
SkipFrame(pts, wanted) == FLess(pts, wanted)

WantedNotAdvanced(wanted, wft) == wanted

\* wanted_pts += wanted_frame_time
AdvanceWanted(wanted, wft) == FAdd(wanted, wft)

NextIdxSkipsOne(i) == i + 2

\* idx += 1
NextIdx(i) == i + 1

EmptyPlaneAccepted(kind) == FALSE

\* y.is_empty()
YIsEmpty(kind) == kind = "emptyY"

\* The yuv*_to_rgba call: Ok, or Err when the planes do not fit the image.
Convert(kind) == IF kind = "badPlanes" THEN "Err" ELSE "Ok"

\* out.len() after pushing one pixel per chunks_exact(4) chunk of rgba
OutLen(w, h) == (w * h * 4) \div 4

AnyErrorEndsLoop(e) == TRUE

\* Err(y4m::Error::EOF) => break
IsEOF(e) == e = "EOF"

ErrorSwallowed(res) == FALSE

\* The ? on c.add_frame_rgba(..): an Err returns from collect.
Propagates(res) == res # "Ok"

\* --------------------------------------------------------------- state
VARIABLES
    width, height, colorspace, framerate,  \* the decoder's header
    raw_params, bytes_per_sample,
    file_size, in_color_space,             \* Y4MDecoder's other fields
    asked, estimate,                       \* total_frames: called, and its result
    range, matrix, samp,                   \* what collect resolved, per run
    converted,                             \* source frames passed to yuv*_to_rgba
    frames, ending,                        \* the stream as read so far
    fps, speed,                            \* self.fps: the request, per run
    pc, result,                            \* where each collect call is, what it returned
    idx, presentation_timestamp, wanted_pts,
    pos,                                   \* frames read_frame has returned to the run
    reads,                                 \* calls of read_frame by the run
    kept,                                  \* source frames the run did not skip
    sink                                   \* calls of add_frame_rgba by the run

vars == <<width, height, colorspace, framerate, frames, ending, fps, speed, pc, result,
          idx, presentation_timestamp, wanted_pts, pos, reads, kept, sink,
          raw_params, bytes_per_sample, file_size, in_color_space, asked, estimate,
          range, matrix, samp, converted>>

header == <<width, height, colorspace, framerate, fps, speed,
            raw_params, bytes_per_sample, file_size, in_color_space>>

estimator == <<asked, estimate>>

resolved == <<range, matrix, samp>>

FrameKinds == {"good", "emptyY", "badPlanes"}

\* y4m::Error values read_frame returns: EOF, or any other.
Endings == {"EOF", "IoError"}

Terminal == {"done", "failed"}

\* The state after Y4MDecoder::new, before any call, but for the header.
Fresh ==
    /\ asked = FALSE
    /\ estimate = None
    /\ range = [r \in Runs |-> "unset"]
    /\ matrix = [r \in Runs |-> "unset"]
    /\ samp = [r \in Runs |-> "unset"]
    /\ converted = [r \in Runs |-> {}]

Init ==
    /\ width \in Widths
    /\ height \in Heights
    /\ colorspace \in Colorspaces
    /\ framerate \in SourceRates
    /\ fps \in TargetRates
    /\ speed \in [Runs -> Speeds]
    /\ raw_params = PlainHeader
    /\ bytes_per_sample = 1
    /\ file_size = None
    /\ in_color_space = None
    /\ Fresh
    /\ frames = <<>>
    /\ ending = "unread"
    /\ pc = [r \in Runs |-> "start"]
    /\ result = [r \in Runs |-> <<"None", "">>]
    /\ idx = [r \in Runs |-> 0]
    /\ presentation_timestamp = [r \in Runs |-> Zero]
    /\ wanted_pts = [r \in Runs |-> Zero]
    /\ pos = [r \in Runs |-> 0]
    /\ reads = [r \in Runs |-> 0]
    /\ kept = [r \in Runs |-> {}]
    /\ sink = [r \in Runs |-> <<>>]

\* collect is synchronous: the second call starts when the first has returned.
Turn(r) == r = 1 \/ pc[1] \in Terminal

Fail(r, e) ==
    /\ pc' = [pc EXCEPT ![r] = "failed"]
    /\ result' = [result EXCEPT ![r] = e]

\* collect, from its entry to the loop: lines 92-136.
Start(r) ==
    /\ pc[r] = "start"
    /\ Turn(r)
    /\ range' = [range EXCEPT ![r] = RangeOf(raw_params)]
    /\ matrix' = [matrix EXCEPT ![r] = MatrixOf(in_color_space, width, height)]
    /\ IF ~SampOf(colorspace, raw_params).ok
         THEN Fail(r, SampOf(colorspace, raw_params).err) /\ UNCHANGED samp
         ELSE /\ samp' = [samp EXCEPT ![r] = SampOf(colorspace, raw_params).samp]
              /\ IF DimsOutOfBounds(width, height)
                   THEN Fail(r, <<"VideoTooLarge", "">>)
                   ELSE /\ pc' = [pc EXCEPT ![r] = "loop"]
                        /\ UNCHANGED result
    /\ idx' = [idx EXCEPT ![r] = 0]
    /\ presentation_timestamp' = [presentation_timestamp EXCEPT ![r] = Zero]
    /\ wanted_pts' = [wanted_pts EXCEPT ![r] = Zero]
    /\ UNCHANGED <<header, estimator, frames, ending, pos, reads, kept, sink, converted>>

\* What self.decoder.read_frame() can return to run r.  The part of the file
\* already read by a run is fixed; beyond it the file holds any frame, or ends.
ReadOutcomes(r) ==
    IF pos[r] < Len(frames)
      THEN {[ok |-> TRUE, frame |-> frames[pos[r] + 1]]}
      ELSE IF ending # "unread"
             THEN {[ok |-> FALSE, err |-> ending]}
             ELSE {[ok |-> FALSE, err |-> e] : e \in Endings}
                  \cup (IF Len(frames) < MaxFrames
                          THEN {[ok |-> TRUE, frame |-> k] : k \in FrameKinds}
                          ELSE {})

Discover(r, out) ==
    IF pos[r] < Len(frames) \/ ending # "unread"
      THEN UNCHANGED <<frames, ending>>
      ELSE IF out.ok
             THEN frames' = Append(frames, out.frame) /\ UNCHANGED ending
             ELSE ending' = out.err /\ UNCHANGED frames

\* The test made on the timestamp handed to the sink instead.
SkipsOnOutputTime(r, pts) == SkipFrame(FDiv(pts, speed[r]), wanted_pts[r])

\* The skip test of a call, on its own accumulators: lines 142-144.
Skips(r, pts) == SkipFrame(pts, wanted_pts[r])

\* One iteration of the loop with read_frame returning Ok(frame): lines 139-224.
OnFrame(r, frame, sinkres) ==
    LET this_frame_pts == ThisFramePts(presentation_timestamp[r], speed[r])
        pts == FAdd(presentation_timestamp[r], FrameTime(framerate))
        call == [idx |-> idx[r], pts |-> this_frame_pts, src |-> pos[r],
                 acc |-> pts, res |-> sinkres]
    IN
    /\ presentation_timestamp' = [presentation_timestamp EXCEPT ![r] = pts]
    /\ pos' = [pos EXCEPT ![r] = @ + 1]
    /\ IF Skips(r, pts)
         THEN UNCHANGED <<wanted_pts, idx, sink, kept, converted, pc, result>>
         ELSE /\ wanted_pts' = [wanted_pts EXCEPT
                                  ![r] = AdvanceWanted(@, WantedFrameTime(fps))]
              /\ kept' = [kept EXCEPT ![r] = @ \cup {pos[r]}]
              /\ IF YIsEmpty(frame)
                   THEN UNCHANGED converted
                   ELSE converted' = [converted EXCEPT ![r] = @ \cup {pos[r]}]
              /\ IF YIsEmpty(frame)
                   THEN Fail(r, <<"BadFrame", "">>) /\ UNCHANGED <<idx, sink>>
                   ELSE IF Convert(frame) # "Ok"
                     THEN Fail(r, <<"BadFrame", "conversion">>) /\ UNCHANGED <<idx, sink>>
                     ELSE IF OutLen(width, height) # width * height
                       THEN Fail(r, <<"BadFrame", "">>) /\ UNCHANGED <<idx, sink>>
                       ELSE /\ sink' = [sink EXCEPT ![r] = Append(@, call)]
                            /\ IF Propagates(sinkres)
                                 THEN Fail(r, <<"Sink", sinkres>>) /\ UNCHANGED idx
                                 ELSE /\ idx' = [idx EXCEPT ![r] = NextIdx(@)]
                                      /\ UNCHANGED <<pc, result>>

\* One iteration with read_frame returning Err: lines 225-226, 229.
OnError(r, e) ==
    /\ IF IsEOF(e)
         THEN /\ pc' = [pc EXCEPT ![r] = "done"]
              /\ result' = [result EXCEPT ![r] = <<"Ok", "">>]
         ELSE Fail(r, <<"Decoder", e>>)
    /\ UNCHANGED <<presentation_timestamp, wanted_pts, idx, pos, kept, sink, converted>>

\* The loop body: lines 137-228.
LoopStep(r) ==
    /\ pc[r] = "loop"
    /\ Turn(r)
    /\ \E out \in ReadOutcomes(r), sinkres \in {"Ok", "Err"} :
         /\ Discover(r, out)
         /\ reads' = [reads EXCEPT ![r] = @ + 1]
         /\ IF out.ok THEN OnFrame(r, out.frame, sinkres) ELSE OnError(r, out.err)
    /\ UNCHANGED <<header, estimator, resolved>>

\* total_frames: lines 65-89.  It reads the header and file_size alone.
TotalFrames ==
    /\ ~asked
    /\ asked' = TRUE
    /\ estimate' = TotalFramesOf(file_size, raw_params, width, height,
                                 bytes_per_sample, colorspace)
    /\ UNCHANGED <<header, resolved, frames, ending, pc, result, idx,
                   presentation_timestamp, wanted_pts, pos, reads, kept, sink, converted>>

Next == \E r \in Runs : Start(r) \/ LoopStep(r)

Spec == Init /\ [][Next]_vars

\* collect is a sequential loop that blocks on nothing but read_frame and
\* add_frame_rgba, both of which return: an iteration that can run does run.
\* Termination is checked on decodable headers and on one too large.
InitFair ==
    /\ Init
    /\ width \in {2, 65536}
    /\ height = 2
    /\ colorspace \in {"C420", "Cmono12"}
    /\ speed \in {<<<<1, 1>>, <<2, 1>>>>, <<<<1, 2>>, <<1, 1>>>>}

SpecFair == InitFair /\ [][Next]_vars /\ WF_vars(Next)

\* A file of any size, header and dimensions whose frame count is asked for.
InitEstimate ==
    /\ width \in EstimateWidths
    /\ height \in EstimateHeights
    /\ colorspace \in Colorspaces
    /\ bytes_per_sample \in SampleBytes
    /\ raw_params \in {h \in RawHeaders : Len(h) <= 2}
    /\ file_size \in FileSizes
    /\ framerate = <<10, 1>>
    /\ fps = None
    /\ speed = [r \in Runs |-> One]
    /\ in_color_space = None
    /\ Fresh
    /\ frames = <<>>
    /\ ending = "unread"
    /\ pc = [r \in Runs |-> "start"]
    /\ result = [r \in Runs |-> <<"None", "">>]
    /\ idx = [r \in Runs |-> 0]
    /\ presentation_timestamp = [r \in Runs |-> Zero]
    /\ wanted_pts = [r \in Runs |-> Zero]
    /\ pos = [r \in Runs |-> 0]
    /\ reads = [r \in Runs |-> 0]
    /\ kept = [r \in Runs |-> {}]
    /\ sink = [r \in Runs |-> <<>>]

SpecEstimate == InitEstimate /\ [][TotalFrames]_vars

\* Tags of the runs that are about the range and the matrix.
ResolveTags == {"C420", "C444p10"}

\* A file holding a header of any text and dimensions and no frame, opened with
\* any caller's matrix.
InitResolve ==
    /\ width \in MatrixWidths
    /\ height \in MatrixHeights
    /\ colorspace \in ResolveTags
    /\ raw_params \in RawHeaders
    /\ in_color_space \in Matrices
    /\ bytes_per_sample = 1
    /\ file_size = None
    /\ framerate = <<10, 1>>
    /\ fps = None
    /\ speed = [r \in Runs |-> One]
    /\ Fresh
    /\ frames = <<>>
    /\ ending = "EOF"
    /\ pc = [r \in Runs |-> "start"]
    /\ result = [r \in Runs |-> <<"None", "">>]
    /\ idx = [r \in Runs |-> 0]
    /\ presentation_timestamp = [r \in Runs |-> Zero]
    /\ wanted_pts = [r \in Runs |-> Zero]
    /\ pos = [r \in Runs |-> 0]
    /\ reads = [r \in Runs |-> 0]
    /\ kept = [r \in Runs |-> {}]
    /\ sink = [r \in Runs |-> <<>>]

SpecResolve == InitResolve /\ [][Next]_vars

\* ------------------------------------------------------------ readings
\* The calls of add_frame_rgba that returned Ok: the frames emitted.
Accepted(r) == SelectSeq(sink[r], LAMBDA c : c.res = "Ok")

Shown(c) == [idx |-> c.idx, pts |-> c.pts, src |-> c.src]

\* The source rate and the requested rate as numbers.
Fs == Rat(framerate[1], framerate[2])

Ft == Rat(IF fps = None THEN DEFAULT_FPS ELSE fps[1], 1)

Floor(q) == q[1] \div q[2]

\* The loop variables and the frames emitted by a run over n source frames
\* in which nothing fails.
RECURSIVE FailureFree(_, _)
FailureFree(spd, n) ==
    IF n = 0
      THEN [pts |-> Zero, wanted |-> Zero, idx |-> 0, out |-> <<>>]
      ELSE LET s == FailureFree(spd, n - 1)
               pts == FAdd(s.pts, FrameTime(framerate))
           IN IF SkipFrame(pts, s.wanted)
                THEN [s EXCEPT !.pts = pts]
                ELSE [pts |-> pts,
                      wanted |-> AdvanceWanted(s.wanted, WantedFrameTime(fps)),
                      idx |-> NextIdx(s.idx),
                      out |-> Append(s.out, [idx |-> s.idx,
                                             pts |-> ThisFramePts(s.pts, spd),
                                             src |-> n - 1])]

\* -------------------------------------------------------------- claims
\* C1: the index passed to add_frame_rgba is 0 for the first call and one more
\* than the previous index for every later call, whatever frames were skipped:
\* the indices of a run are 0..N-1 without gap or repeat.
C1_IndicesContiguous ==
    \A r \in Runs : \A i \in 1..Len(sink[r]) : sink[r][i].idx = i - 1

C1_Witness ==
    \E r \in Runs :
        /\ pc[r] = "done"
        /\ Len(sink[r]) >= 2
        /\ pos[r] > Len(sink[r])
        /\ sink[r][Len(sink[r])].src > sink[r][Len(sink[r])].idx

\* C2: with the requested rate Ft at most the source rate Fs, a run that reaches
\* end-of-stream after S source frames has emitted floor((S / Fs) * Ft) frames,
\* give or take one.
C2_EmittedCount ==
    \A r \in Runs :
        (pc[r] = "done" /\ FLeq(Ft, Fs)) =>
            LET expected == Floor(FDiv(FDiv(Rat(pos[r], 1), Fs), FDiv(One, Ft)))
                n == Len(Accepted(r))
            IN n - expected \in {-1, 0, 1}

C2_Witness ==
    \E r \in Runs :
        /\ pc[r] = "done"
        /\ FLess(Ft, Fs)
        /\ pos[r] = 3
        /\ Len(Accepted(r)) = 2
        /\ Floor(FDiv(FDiv(Rat(pos[r], 1), Fs), FDiv(One, Ft))) = 1

\* C3: within one run the timestamps passed to add_frame_rgba never decrease
\* from one call to the next.
C3_TimestampsNonDecreasing ==
    \A r \in Runs : \A i, j \in 1..Len(sink[r]) :
        i < j => FLeq(sink[r][i].pts, sink[r][j].pts)

C3_Witness ==
    \E r \in Runs :
        /\ Len(sink[r]) >= 3
        /\ speed[r] # One
        /\ FLess(sink[r][1].pts, sink[r][2].pts)
        /\ FLess(sink[r][2].pts, sink[r][3].pts)

\* C4 as stated: every timestamp passed to add_frame_rgba is the value
\* presentation_timestamp has at that call, divided by speed.
C4_TimestampIsAccumulatorAtCall ==
    \A r \in Runs : \A i \in 1..Len(sink[r]) :
        sink[r][i].pts = FDiv(sink[r][i].acc, speed[r])

\* C4 amended: every timestamp passed to add_frame_rgba is the value
\* presentation_timestamp had before this frame's duration was added to it
\* (its value at the call less one source frame duration), divided by speed.
C4_TimestampIsAccumulatorBeforeFrame ==
    \A r \in Runs : \A i \in 1..Len(sink[r]) :
        sink[r][i].pts = FDiv(FSub(sink[r][i].acc, FrameTime(framerate)), speed[r])

C4_Witness ==
    \E r \in Runs :
        /\ Len(sink[r]) >= 2
        /\ speed[r] = <<1, 2>>
        /\ sink[r][2].pts # Zero
        /\ sink[r][2].acc = presentation_timestamp[r]

\* C5: over the same stream and requested rate, the run at speed 2 gives every
\* source frame both runs emit exactly half the timestamp the run at speed 1
\* gives it.
C5_SpeedTwoHalves ==
    \A a, b \in Runs :
        (speed[a] = <<1, 1>> /\ speed[b] = <<2, 1>>) =>
            \A i \in 1..Len(sink[a]) : \A j \in 1..Len(sink[b]) :
                sink[a][i].src = sink[b][j].src =>
                    FAdd(sink[b][j].pts, sink[b][j].pts) = sink[a][i].pts

C5_Witness ==
    /\ speed[1] = <<1, 1>>
    /\ speed[2] = <<2, 1>>
    /\ pc[1] = "done"
    /\ pc[2] = "done"
    /\ \E i \in 1..Len(sink[1]) : \E j \in 1..Len(sink[2]) :
          /\ sink[1][i].src = sink[2][j].src
          /\ sink[1][i].src > sink[1][i].idx
          /\ sink[1][i].pts # Zero

\* C6: with the requested rate equal to the source rate and speed 1, no frame is
\* skipped: the k-th source frame is emitted with index k and timestamp k / Fs,
\* and a run that reaches end-of-stream has emitted every frame it read.
C6_SameRateKeepsEveryFrame ==
    \A r \in Runs :
        (Ft = Fs /\ speed[r] = <<1, 1>> /\ (pc[r] = "loop" \/ pc[r] = "done")) =>
            /\ Len(Accepted(r)) = pos[r]
            /\ \A i \in 1..Len(sink[r]) :
                  /\ sink[r][i].idx = i - 1
                  /\ sink[r][i].src = i - 1
                  /\ sink[r][i].pts = Rat((i - 1) * framerate[2], framerate[1])

C6_Witness ==
    \E r \in Runs :
        /\ framerate = <<10, 1>>
        /\ fps = Some(10)
        /\ speed[r] = <<1, 1>>
        /\ pc[r] = "done"
        /\ pos[r] = 2
        /\ Len(sink[r]) = 2
        /\ sink[r][1].pts = <<0, 1>>
        /\ sink[r][2].pts = <<1, 10>>

\* C7 as stated: whenever read_frame returns a frame whose luma plane is empty,
\* at any place in the stream and for any rates, collect fails at once with
\* "Bad Y4M frame" and emits neither that frame nor a later one.
C7_EmptyLumaAlwaysFails ==
    \A r \in Runs : \A j \in 0..(pos[r] - 1) :
        frames[j + 1] = "emptyY" =>
            /\ pc[r] = "failed"
            /\ result[r] = <<"BadFrame", "">>
            /\ pos[r] = j + 1
            /\ \A i \in 1..Len(sink[r]) : sink[r][i].src < j

\* C7 amended: whenever read_frame returns a frame whose luma plane is empty and
\* the drop rule does not skip that frame, collect fails at once with
\* "Bad Y4M frame", reads no further frame and emits neither that frame nor a
\* later one.  (A frame the drop rule skips is never inspected.)
C7_RetainedEmptyLumaFails ==
    \A r \in Runs : \A j \in 0..(pos[r] - 1) :
        (frames[j + 1] = "emptyY" /\ j \in kept[r]) =>
            /\ pc[r] = "failed"
            /\ result[r] = <<"BadFrame", "">>
            /\ pos[r] = j + 1
            /\ reads[r] = j + 1
            /\ \A i \in 1..Len(sink[r]) : sink[r][i].src < j

C7_Witness ==
    \E r \in Runs :
        /\ pos[r] >= 3
        /\ frames[pos[r]] = "emptyY"
        /\ (pos[r] - 1) \in kept[r]
        /\ result[r] = <<"BadFrame", "">>
        /\ Len(sink[r]) >= 1
        /\ Cardinality(kept[r]) < pos[r]

OutsideBounds == width \notin 1..65535 \/ height \notin 1..65535

\* C8 as stated: with a declared width or height outside [1, 65535] collect
\* fails with "Video too large", whatever the colorspace tag, before read_frame
\* is called and before any frame is emitted.
C8_OutOfBoundsIsVideoTooLarge ==
    \A r \in Runs :
        (OutsideBounds /\ pc[r] # "start") =>
            /\ pc[r] = "failed"
            /\ result[r] = <<"VideoTooLarge", "">>
            /\ reads[r] = 0
            /\ sink[r] = <<>>

\* C8 amended: with a declared width or height outside [1, 65535] collect fails
\* before read_frame is called and before any frame is emitted, whatever the
\* colorspace tag; the error is "Video too large" when the tag is one of the
\* supported 8-bit tags, and the unsupported-colorspace error otherwise.
C8_OutOfBoundsFailsBeforeReading ==
    \A r \in Runs :
        (OutsideBounds /\ pc[r] # "start") =>
            /\ pc[r] = "failed"
            /\ reads[r] = 0
            /\ sink[r] = <<>>
            /\ colorspace \in SupportedTags => result[r] = <<"VideoTooLarge", "">>
            /\ colorspace \notin SupportedTags =>
                  result[r][1] \in {"NotSupportedYet", "UnsupportedColorMode"}

C8_Witness ==
    /\ width = 0
    /\ height = 2
    /\ colorspace = "C420"
    /\ pc[1] = "failed"
    /\ result[1] = <<"VideoTooLarge", "">>
    /\ reads[1] = 0

\* What C9 says of a state: a run returned Ok exactly when read_frame reported
\* end-of-stream to it, and a run to which read_frame reported another error
\* returned that error; a run calls read_frame once per frame it got and at most
\* once more.
C9_Returned ==
    \A r \in Runs :
        /\ result[r] = <<"Ok", "">> <=> pc[r] = "done"
        /\ pc[r] = "done" => (ending = "EOF" /\ pos[r] = Len(frames))
        /\ reads[r] \in {pos[r], pos[r] + 1}
        /\ reads[r] = pos[r] + 1 =>
              /\ pos[r] = Len(frames)
              /\ IF ending = "EOF"
                   THEN pc[r] = "done"
                   ELSE pc[r] = "failed" /\ result[r] = <<"Decoder", ending>>

\* What C9 says of a step: a run that has returned stays as it is.
C9_Stays ==
    \A r \in Runs :
        pc[r] \in Terminal =>
            /\ pc'[r] = pc[r]
            /\ result'[r] = result[r]
            /\ reads'[r] = reads[r]
            /\ pos'[r] = pos[r]
            /\ sink'[r] = sink[r]

\* C9: collect returns Ok exactly when read_frame reports end-of-stream before
\* any failure, and returns the error when read_frame reports any other error;
\* once it has returned, read_frame is not called again and nothing is emitted.
C9_EndOfStreamOrError == []C9_Returned /\ [][C9_Stays]_vars

C9_Witness ==
    /\ pc[1] = "done"
    /\ Len(sink[1]) >= 2
    /\ reads[1] = Len(frames) + 1
    /\ pc[2] = "failed"
    /\ result[2] = <<"Sink", "Err">>
    /\ pos[2] < pos[1]

\* The number of the source frame a failed run failed at.
FailedAt(r) ==
    IF result[r][1] = "Decoder" THEN pos[r]
    ELSE IF result[r][1] \in {"BadFrame", "Sink"} THEN pos[r] - 1
    ELSE 0

\* C10: when collect fails at a source frame, the frames it has emitted are the
\* frames (indices, timestamps, order) a run in which nothing fails emits over
\* the source frames before that one, and nothing later.
C10_EmittedIsFailureFreePrefix ==
    \A r \in Runs :
        pc[r] = "failed" =>
            /\ Len(Accepted(r)) = Len(FailureFree(speed[r], FailedAt(r)).out)
            /\ \A i \in 1..Len(Accepted(r)) :
                  Shown(Accepted(r)[i]) = FailureFree(speed[r], FailedAt(r)).out[i]

C10_Witness ==
    \E r \in Runs :
        /\ pc[r] = "failed"
        /\ result[r][1] = "Sink"
        /\ Len(Accepted(r)) >= 1
        /\ FailedAt(r) > Len(Accepted(r))
        /\ sink[r][Len(sink[r])].src = FailedAt(r)
        /\ sink[r][Len(sink[r])].pts # Zero

\* The bytes of one frame as total_frames counts them.
FrameBytes ==
    LET s == IF colorspace \in {"Cmono", "Cmono12"} THEN 4
             ELSE IF colorspace \in {"C420", "C420p10", "C420p12", "C420jpeg",
                                     "C420paldv", "C420mpeg2"} THEN 6
             ELSE IF colorspace \in {"C422", "C422p10", "C422p12"} THEN 8
             ELSE 12
    IN (width * height * bytes_per_sample * s) \div 4 + 6

\* C11: total_frames returns no value exactly when the file size is unknown;
\* otherwise it returns the whole number n >= 0 with
\* n * bytesPerFrame <= max(0, fileSize - headerLength) < (n + 1) * bytesPerFrame,
\* bytesPerFrame being width*height*bytesPerSample*s/4 + 6 with s by tag; it is 0
\* when the header is longer than the file.
C11_TotalFrames ==
    asked =>
        /\ estimate = None <=> file_size = None
        /\ file_size # None =>
              LET n == estimate[1]
                  left == IF file_size[1] > ByteLen(raw_params)
                            THEN file_size[1] - ByteLen(raw_params) ELSE 0
              IN /\ n >= 0
                 /\ n * FrameBytes <= left
                 /\ left < (n + 1) * FrameBytes
                 /\ ByteLen(raw_params) >= file_size[1] => n = 0

C11_Witness ==
    /\ asked
    /\ file_size = Some(5)
    /\ ByteLen(raw_params) > 5
    /\ estimate = Some(0)

\* C12: the subsampling family collect resolves depends on the colorspace tag
\* alone: Cmono gives Mono, the four 8-bit 4:2:0 tags S2x2, C422 S2x1, C444 S1x1;
\* a higher-bit-depth tag fails with a message naming that tag and any other tag
\* with a message holding the raw header text, in both cases before read_frame
\* is called, so that no frame is emitted.
C12_SubsamplingByTag ==
    \A r \in Runs :
        pc[r] # "start" =>
            /\ colorspace = "Cmono" => samp[r] = "Mono"
            /\ colorspace \in {"C420", "C420jpeg", "C420paldv", "C420mpeg2"} =>
                  samp[r] = "S2x2"
            /\ colorspace = "C422" => samp[r] = "S2x1"
            /\ colorspace = "C444" => samp[r] = "S1x1"
            /\ colorspace \in {"Cmono12", "C420p10", "C420p12", "C422p10", "C422p12",
                               "C444p10", "C444p12"} =>
                  result[r] = <<"NotSupportedYet", colorspace>>
            /\ colorspace = "Other" => result[r] = <<"UnsupportedColorMode", raw_params>>
            /\ colorspace \notin SupportedTags =>
                  /\ pc[r] = "failed"
                  /\ samp[r] = "unset"
                  /\ reads[r] = 0
                  /\ sink[r] = <<>>

C12_Witness ==
    /\ colorspace = "C422p10"
    /\ width = 2
    /\ height = 2
    /\ pc[1] = "failed"
    /\ result[1] = <<"NotSupportedYet", "C422p10">>
    /\ pc[2] = "failed"
    /\ reads = [r \in Runs |-> 0]

\* The raw header holds the text COLORRANGE= followed at once by value.
HoldsColorRange(value) ==
    \E i \in 1..(Len(raw_params) - 1) :
        raw_params[i] = "COLORRANGE=" /\ raw_params[i + 1] = value

HoldsNoColorRange == \A i \in 1..Len(raw_params) : raw_params[i] # "COLORRANGE="

\* C13 as stated: every raw header that holds COLORRANGE=FULL resolves to the
\* full range, and every raw header that holds COLORRANGE=LIMITED or no
\* COLORRANGE= at all resolves to the limited range.
C13_RangeByContainedToken ==
    \A r \in Runs :
        pc[r] # "start" =>
            /\ HoldsColorRange("FULL") => range[r] = "Full"
            /\ (HoldsColorRange("LIMITED") \/ HoldsNoColorRange) => range[r] = "Limited"

\* C13 amended: the range is decided by the first COLORRANGE= of the raw
\* header: it is full exactly when the text right after that first occurrence
\* starts with FULL, and limited otherwise, also when there is no COLORRANGE=.
C13_RangeByFirstToken ==
    \A r \in Runs :
        pc[r] # "start" =>
            IF HoldsNoColorRange
              THEN range[r] = "Limited"
              ELSE \E i \in 1..Len(raw_params) :
                      /\ raw_params[i] = "COLORRANGE="
                      /\ \A j \in 1..(i - 1) : raw_params[j] # "COLORRANGE="
                      /\ range[r] = "Full" <=>
                            (i < Len(raw_params) /\ raw_params[i + 1] = "FULL")
                      /\ range[r] \in {"Full", "Limited"}

C13_Witness ==
    /\ raw_params = <<"X", "COLORRANGE=", "FULL">>
    /\ pc[1] = "done"
    /\ range[1] = "Full"

\* C14: a matrix given by the caller is the one used, whatever the width and
\* height; without one, Bt601 is used exactly when height <= 480 and
\* width <= 720, and Bt709 in every other case.
C14_MatrixChoice ==
    \A r \in Runs :
        pc[r] # "start" =>
            /\ in_color_space # None => matrix[r] = in_color_space[1]
            /\ (in_color_space = None /\ height <= 480 /\ width <= 720) =>
                  matrix[r] = "Bt601"
            /\ (in_color_space = None /\ (height > 480 \/ width > 720)) =>
                  matrix[r] = "Bt709"

C14_Witness ==
    /\ in_color_space = None
    /\ width = 720
    /\ height = 481
    /\ pc[1] = "done"
    /\ matrix[1] = "Bt709"

\* What C15 says of a step in which run r is given a frame by read_frame.
C15_Step ==
    \A r \in Runs :
        pos'[r] = pos[r] + 1 =>
            LET acc == presentation_timestamp'[r]
                low == FLess(acc, wanted_pts[r])
            IN /\ acc = FAdd(presentation_timestamp[r], Rat(framerate[2], framerate[1]))
               /\ low <=> pos[r] \notin kept'[r]
               /\ low => /\ idx' = idx
                         /\ wanted_pts' = wanted_pts
                         /\ sink' = sink
                         /\ converted' = converted
                         /\ pc' = pc
                         /\ result' = result
               /\ ~low => wanted_pts'[r] = FAdd(wanted_pts[r], FDiv(One, Ft))

\* C15: a frame that was read is dropped exactly when the accumulated source
\* time, once advanced by the frame's duration, is below wanted_pts; a dropped
\* frame changes the accumulated source time alone (no index, no wanted_pts, no
\* conversion, no emission); a frame that is not dropped advances wanted_pts by
\* 1 / target rate, the target rate being DEFAULT_FPS when none was asked for.
C15_DropRule == [][C15_Step]_vars

C15_Witness ==
    \E r \in Runs :
        /\ fps = None
        /\ pc[r] = "loop"
        /\ pos[r] = 4
        /\ kept[r] = {0, 1, 2}
        /\ converted[r] = {0, 1, 2}
        /\ Len(sink[r]) = 3
        /\ wanted_pts[r] = Rat(3, DEFAULT_FPS)

\* C16: the timestamp of the k-th source frame read (skipped frames counted) is
\* k * (den / num) / speed, den / num being the source frame duration: it is
\* taken before the frame's own duration is added, so frame 0 has timestamp 0.
C16_TimestampOfSourceFrame ==
    \A r \in Runs : \A i \in 1..Len(sink[r]) :
        LET k == sink[r][i].src
        IN /\ sink[r][i].pts = Rat(k * framerate[2] * speed[r][2],
                                   framerate[1] * speed[r][1])
           /\ k = 0 => sink[r][i].pts = Zero

C16_Witness ==
    \E r \in Runs :
        /\ framerate = <<25, 2>>
        /\ speed[r] = <<2, 1>>
        /\ Len(sink[r]) >= 1
        /\ sink[r][Len(sink[r])].src = 3
        /\ sink[r][Len(sink[r])].pts = <<3, 25>>

\* The time at which source frame j ends, and the n-th wanted output instant.
EndOf(j) == Rat((j + 1) * framerate[2], framerate[1])

WantedAt(n) == FDiv(Rat(n, 1), Ft)

\* timestamp * speed
Unscaled(r, c) == Rat(c.pts[1] * speed[r][1], c.pts[2] * speed[r][2])

WithinOneFrame(r, c) ==
    /\ FLeq(FSub(WantedAt(c.idx), Rat(framerate[2], framerate[1])), Unscaled(r, c))
    /\ FLeq(Unscaled(r, c), WantedAt(c.idx))

\* C17 as stated: with Ft <= Fs the frame emitted with index n is the first
\* source frame of the stream whose end time has reached n / Ft, and
\* n/Ft - 1/Fs <= timestamp * speed <= n/Ft.
C17_FirstFrameToReach ==
    \A r \in Runs :
        FLeq(Ft, Fs) =>
            \A i \in 1..Len(sink[r]) :
                LET c == sink[r][i]
                IN /\ FLeq(WantedAt(c.idx), EndOf(c.src))
                   /\ \A j \in 0..(c.src - 1) : FLess(EndOf(j), WantedAt(c.idx))
                   /\ WithinOneFrame(r, c)

\* C17 amended: with Ft <= Fs the frame emitted with index n is the first source
\* frame after the one emitted with index n - 1 (the first of the stream for
\* n = 0) whose end time has reached n / Ft, and
\* n/Ft - 1/Fs <= timestamp * speed <= n/Ft.
C17_FirstLaterFrameToReach ==
    \A r \in Runs :
        FLeq(Ft, Fs) =>
            \A i \in 1..Len(sink[r]) :
                LET c == sink[r][i]
                    after == IF i = 1 THEN 0 ELSE sink[r][i - 1].src + 1
                IN /\ FLeq(WantedAt(c.idx), EndOf(c.src))
                   /\ \A j \in after..(c.src - 1) : FLess(EndOf(j), WantedAt(c.idx))
                   /\ WithinOneFrame(r, c)

C17_Witness ==
    \E r \in Runs :
        /\ framerate = <<30, 1>>
        /\ fps = Some(10)
        /\ Len(sink[r]) = 2
        /\ sink[r][2].idx = 1
        /\ sink[r][2].src = 3 - 1
        /\ pos[r] = 4

\* What collect can fail with: the error kinds it constructs or passes on.
ErrorKinds ==
    {"UnsupportedColorMode", "NotSupportedYet", "VideoTooLarge", "BadFrame", "Decoder",
     "Sink"}

C18_Bounded ==
    \A r \in Runs :
        /\ reads[r] <= Len(frames) + 1
        /\ reads[r] = Len(frames) + 1 => ending # "unread"
        /\ pc[r] = "done" =>
              /\ ending = "EOF"
              /\ pos[r] = Len(frames)
              /\ reads[r] = Len(frames) + 1
        /\ pc[r] = "failed" =>
              /\ result[r][1] \in ErrorKinds
              /\ result[r][1] = "Decoder" => ending = "IoError"

\* C18: on a finite source and a sink that returns, collect eventually ends in
\* done or failed; it calls read_frame at most once more than the source has
\* frames, and it ends in done only once end-of-stream has been read after the
\* last frame, every other end being an error.
C18_Terminates ==
    /\ []C18_Bounded
    /\ <>(\A r \in Runs : pc[r] \in Terminal)

C18_Witness ==
    \E r \in Runs :
        /\ pc[r] = "done"
        /\ Len(frames) >= 3
        /\ reads[r] = Len(frames) + 1
        /\ Len(sink[r]) < Len(frames)
        /\ Len(sink[r]) >= 1

\* C19: two runs over the same stream with the same target rate and different
\* speeds retain the same source frames and give them the same indices; the
\* timestamps differ by the speeds alone.
C19_KeepDropIgnoresSpeed ==
    \A a, b \in Runs :
        /\ \A j \in 0..(Min({pos[a], pos[b]}) - 1) : j \in kept[a] <=> j \in kept[b]
        /\ \A i \in 1..Len(sink[a]) : \A k \in 1..Len(sink[b]) :
              sink[a][i].src = sink[b][k].src =>
                  /\ sink[a][i].idx = sink[b][k].idx
                  /\ Unscaled(a, sink[a][i]) = Unscaled(b, sink[b][k])

C19_Witness ==
    /\ speed[1] # speed[2]
    /\ pos[1] >= 3
    /\ pos[2] >= 3
    /\ Len(sink[1]) >= 2
    /\ Len(sink[2]) = Len(sink[1])
    /\ Len(sink[2]) < pos[2]
    /\ sink[1][2].src = sink[2][2].src
    /\ sink[1][2].pts # sink[2][2].pts

\* C20: a source frame is handed to the sink at most once, so no more frames
\* are emitted than were read. With a target rate above the source rate no frame
\* is dropped: the n-th call carries source frame n under index n, a run that
\* reaches end-of-stream has emitted every frame, and consecutive timestamps are
\* one source frame duration / speed apart, which is not the target spacing.
C20_NoDuplicateNoDropWhenFaster ==
    \A r \in Runs :
        /\ Len(sink[r]) <= pos[r]
        /\ \A i \in 1..Len(sink[r]) :
              /\ sink[r][i].src < pos[r]
              /\ i > 1 => sink[r][i - 1].src < sink[r][i].src
        /\ FLess(Fs, Ft) =>
              /\ kept[r] = 0..(pos[r] - 1)
              /\ pc[r] = "loop" => Len(sink[r]) = pos[r]
              /\ pc[r] = "done" => Len(Accepted(r)) = Len(frames)
              /\ \A i \in 1..Len(sink[r]) :
                    /\ sink[r][i].src = i - 1
                    /\ sink[r][i].idx = i - 1
                    /\ i > 1 =>
                          /\ FSub(sink[r][i].pts, sink[r][i - 1].pts)
                                = FDiv(FrameTime(framerate), speed[r])
                          /\ FSub(sink[r][i].pts, sink[r][i - 1].pts)
                                # FDiv(WantedFrameTime(fps), speed[r])

C20_Witness ==
    \E r \in Runs :
        /\ framerate = <<10, 1>>
        /\ fps = Some(30)
        /\ speed[r] = <<2, 1>>
        /\ pc[r] = "done"
        /\ Len(frames) >= 3
        /\ Len(Accepted(r)) = Len(frames)
        /\ sink[r][3].pts = <<1, 10>>

====
